---- MODULE Spec2Model ----
(***************************************************************************)
(* Model of the API client: the axios instance with its request and        *)
(* response interceptors (automatic retry), handleApiResponse (the result  *)
(* envelope), and the email / email-account operation functions.           *)
(*                                                                         *)
(* JavaScript values.  An optional value is a sequence: << >> is an absent *)
(* (undefined) value, <<v>> a present one.  Strings of the source that are *)
(* not ASCII are named by ASCII identifiers; the source line of each is in *)
(* the comment next to it.                                                 *)
(***************************************************************************)
EXTENDS Integers, Sequences, FiniteSets, TLC

VARIABLES pc, op, arg, config, sent, fails, settled, timer, result

vars == <<pc, op, arg, config, sent, fails, settled, timer, result>>

-----------------------------------------------------------------------------
(* Bounds of the model *)

\* the largest maxRetries a caller puts on a request of its own
MaxRequestedRetries == 3

\* the largest number of optional string fields a caller of addEmailAccount supplies
MaxSuppliedFields == 2

-----------------------------------------------------------------------------
(* JavaScript values *)

None == << >>

Some(v) == <<v>>

\* truthiness of an optional string: undefined and "" are falsy
TruthyS(o) == o # None /\ o[1] # ""

\* truthiness of an optional number: undefined and 0 are falsy
TruthyN(o) == o # None /\ o[1] # 0

\* a || b on optional strings
OrS(a, b) == IF TruthyS(a) THEN a ELSE b

\* a || b on optional numbers
OrN(a, b) == IF TruthyN(a) THEN a ELSE b

-----------------------------------------------------------------------------
(* Program constants *)

DefaultMaxRetries == 2

DefaultRetryDelay == 1000

DefaultPage == 1

DefaultPageSize == 20

MaxPageSize == 100

MaxSubjectLength == 500

\* part_000:420,426  the generic unknown-error string
UnknownError == "unknown error"

\* the message of the TypeError the engine raises on a property read of undefined
TypeErrorMessage == "TypeError: cannot read properties of undefined"

EmailSources == {"swpu", "huel", "892507222"}

EmailTypes == {1, 2}

RetryCodes == {"ECONNABORTED", "ETIMEDOUT", "ECONNRESET", "ENOTFOUND", "EAI_AGAIN", "ENETUNREACH"}

-----------------------------------------------------------------------------
(* The calls, and what a call returns *)

Calls == {1, 2}

\* a resolved promise of a result envelope {success, data, error}
Envelope(s, d, e) == [kind |-> "envelope", success |-> s, data |-> d, error |-> e]

\* a rejected promise: the async function threw
Thrown(m) == [kind |-> "rejected", success |-> FALSE, data |-> None, error |-> Some(m)]

NoResult == [kind |-> "none", success |-> FALSE, data |-> None, error |-> None]

\* the return statement of a failed validation
Invalid(m) == Envelope(FALSE, None, Some(m))

-----------------------------------------------------------------------------
(* What a promise settles to *)

\* a fulfilled promise: the response (nullish: the value is undefined),
\* response.data (hasBody), and the body's errCode, errMsg and data
Resolved(nullish, hasBody, errCode, errMsg, data) ==
    [kind |-> "resolved", nullish |-> nullish, hasBody |-> hasBody, errCode |-> errCode,
     errMsg |-> errMsg, data |-> data, code |-> None, hasResponse |-> FALSE, message |-> None]

\* a rejected promise: the error (nullish: the value is undefined), error.code,
\* error.response (hasResponse), error.response.data.errMsg and error.message
Rejected(nullish, code, hasResponse, errMsg, message) ==
    [kind |-> "rejected", nullish |-> nullish, hasBody |-> FALSE, errCode |-> None,
     errMsg |-> errMsg, data |-> None, code |-> code, hasResponse |-> hasResponse,
     message |-> message]

\* the responses the backend can answer an attempt with (HTTP 2xx)
Responses ==
    { Resolved(FALSE, TRUE, ec, em, d) :
        ec \in {None, Some(0), Some(1)}, em \in {None, Some(""), Some("m1")},
        d \in {None, Some("d1")} }
    \cup { Resolved(FALSE, FALSE, None, None, None) }

\* the errors an attempt can fail with: the error carries the request's config,
\* a code or none, a response (HTTP error status) or none, and a message
Failures ==
    { Rejected(FALSE, cd, hr, IF hr THEN em ELSE None, msg) :
        cd \in {None, Some("ECONNABORTED"), Some("ERR_BAD_RESPONSE")},
        hr \in BOOLEAN, em \in {None, Some("e1")},
        msg \in {None, Some("timeout"), Some("reset")} }

\* the promises handleApiResponse can be handed by a caller of its own
Promises ==
    Responses \cup Failures
    \cup { Resolved(TRUE, FALSE, None, None, None), Rejected(TRUE, None, FALSE, None, None) }

-----------------------------------------------------------------------------
(* client: interceptors and handleApiResponse *)

NoConfig == [url |-> None, data |-> None, retryCount |-> None, maxRetries |-> None,
             retryDelay |-> None]

\* the request interceptor with a delay that doubles on every pass (backoff)
requestInterceptor_Backoff(cfg) ==
    [cfg EXCEPT !.retryCount = OrN(@, Some(0)),
                !.maxRetries = OrN(@, Some(DefaultMaxRetries)),
                !.retryDelay = IF TruthyN(@) THEN Some(2 * @[1]) ELSE Some(DefaultRetryDelay)]

\* the request interceptor that starts the count anew on every pass
requestInterceptor_ResetsCount(cfg) ==
    [cfg EXCEPT !.retryCount = Some(0),
                !.maxRetries = OrN(@, Some(DefaultMaxRetries)),
                !.retryDelay = OrN(@, Some(DefaultRetryDelay))]

\* apiClient.interceptors.request.use: the retry counters of a request
requestInterceptor(cfg) ==
    [cfg EXCEPT !.retryCount = OrN(@, Some(0)),
                !.maxRetries = OrN(@, Some(DefaultMaxRetries)),
                !.retryDelay = OrN(@, Some(DefaultRetryDelay))]

\* the retry decision with the budget test off by one (<= for <)
shouldRetry_OffByOne(cfg, error) ==
    /\ cfg.retryCount[1] <= cfg.maxRetries[1]
    /\ \/ (error.code # None /\ error.code[1] \in RetryCodes)
       \/ ~error.hasResponse

\* the retry decision without the budget test
shouldRetry_IgnoresBudget(cfg, error) ==
    \/ (error.code # None /\ error.code[1] \in RetryCodes)
    \/ ~error.hasResponse

\* the retry decision that looks at the error code only
shouldRetry_CodesOnly(cfg, error) ==
    /\ cfg.retryCount[1] < cfg.maxRetries[1]
    /\ error.code # None /\ error.code[1] \in RetryCodes

\* the retry decision of the response error interceptor
shouldRetry(cfg, error) ==
    /\ cfg.retryCount[1] < cfg.maxRetries[1]
    /\ \/ (error.code # None /\ error.code[1] \in RetryCodes)
       \/ ~error.hasResponse

\* the success envelope with the wrong field of the body as its data
successEnvelope_WrongField(p) == Envelope(TRUE, p.errMsg, None)

\* part_000:413-416  the envelope of a response whose errCode is 0
successEnvelope(p) == Envelope(TRUE, p.data, None)

\* the domain-error envelope that drops the backend's message
domainErrorEnvelope_Generic(p) == Envelope(FALSE, None, Some(UnknownError))

\* the domain-error envelope without the fallback string
domainErrorEnvelope_NoFallback(p) == Envelope(FALSE, None, p.errMsg)

\* part_000:418-421  the envelope of a response whose errCode is not 0
domainErrorEnvelope(p) == Envelope(FALSE, None, OrS(p.errMsg, Some(UnknownError)))

\* the caught-error envelope that forgets error.message
caughtErrorEnvelope_NoMessage(error) ==
    Envelope(FALSE, None,
             OrS(IF error.hasResponse THEN error.errMsg ELSE None, Some(UnknownError)))

\* part_000:424-427  the envelope of a caught error that is an object
caughtErrorEnvelope(error) ==
    Envelope(FALSE, None,
             OrS(IF error.hasResponse THEN error.errMsg ELSE None,
                 OrS(error.message, Some(UnknownError))))

\* a property read of an undefined value raises a TypeError
TypeError == Rejected(FALSE, None, FALSE, None, Some(TypeErrorMessage))

handleApiResponse(p) ==
    IF p.kind = "resolved"
    THEN IF p.nullish \/ ~p.hasBody
         THEN \* response.data or data.errCode throws inside try: caught at 423
              caughtErrorEnvelope(TypeError)
         ELSE IF p.errCode = Some(0)
              THEN successEnvelope(p)
              ELSE domainErrorEnvelope(p)
    ELSE IF p.nullish
         THEN \* error.response throws inside catch: the function rejects
              Thrown(TypeErrorMessage)
         ELSE caughtErrorEnvelope(p)

-----------------------------------------------------------------------------
(* email operations *)

\* what an operation function does: it returns at once (ret), or it posts
\* {url, data} through apiClient and returns handleApiResponse of that
Return(r) == [ret |-> Some(r), post |-> None]

Post(url, data) == [ret |-> None, post |-> Some([url |-> url, data |-> data])]

\* the optional fields of a record that are forwarded when truthy
AddEmailArgs ==
    { [present |-> TRUE, email_source |-> es, email_type |-> et, sender_email |-> se,
       recipient_email |-> re, subject |-> su, sender_name |-> sn, content |-> ct,
       email_id |-> ei, mail_time |-> mt] :
        es \in {None, Some("huel"), Some("gmail")},
        et \in {None, Some(0), Some(2), Some(3)},
        se \in {None, Some("s@x")}, re \in {None, Some("r@x")},
        su \in {None, Some(0), Some(MaxSubjectLength), Some(MaxSubjectLength + 1)},
        sn \in {None, Some("name")}, ct \in {None, Some("")},
        ei \in {None, Some("id")}, mt \in {None, Some(7)} }
    \cup { [present |-> FALSE] }

\* subject is modelled by its length
addEmail(emailData) ==
    IF ~emailData.present THEN Return(Thrown(TypeErrorMessage))
    ELSE IF ~TruthyS(emailData.email_source) THEN Return(Invalid("email_source empty"))
    ELSE IF emailData.email_source[1] \notin EmailSources
         THEN Return(Invalid("email_source not supported"))
    ELSE IF ~TruthyN(emailData.email_type) THEN Return(Invalid("email_type empty"))
    ELSE IF emailData.email_type[1] \notin EmailTypes
         THEN Return(Invalid("email_type not 1 or 2"))
    ELSE IF ~TruthyS(emailData.sender_email) \/ ~TruthyS(emailData.recipient_email)
         THEN Return(Invalid("sender or recipient empty"))
    ELSE IF ~TruthyN(emailData.subject) THEN Return(Invalid("subject empty"))
    ELSE IF emailData.subject[1] > MaxSubjectLength THEN Return(Invalid("subject too long"))
    ELSE Post("/email/addEmail",
              [email_source |-> emailData.email_source,
               email_type |-> emailData.email_type,
               sender_email |-> emailData.sender_email,
               recipient_email |-> emailData.recipient_email,
               subject |-> emailData.subject,
               sender_name |-> IF TruthyS(emailData.sender_name) THEN emailData.sender_name ELSE None,
               content |-> IF TruthyS(emailData.content) THEN emailData.content ELSE None,
               email_id |-> IF TruthyS(emailData.email_id) THEN emailData.email_id ELSE None,
               mail_time |-> IF TruthyN(emailData.mail_time) THEN emailData.mail_time ELSE None])

GetLatestEmailArgs ==
    { [present |-> TRUE, email_source |-> es, email_type |-> et] :
        es \in {None, Some("huel"), Some("gmail")},
        et \in {None, Some(0), Some(2), Some(3)} }
    \cup { [present |-> FALSE] }

getLatestEmail(params) ==
    IF ~params.present THEN Return(Thrown(TypeErrorMessage))
    ELSE IF ~TruthyS(params.email_source) THEN Return(Invalid("email_source empty"))
    ELSE IF params.email_source[1] \notin EmailSources
         THEN Return(Invalid("email_source not supported"))
    ELSE IF ~TruthyN(params.email_type) THEN Return(Invalid("email_type empty"))
    ELSE IF params.email_type[1] \notin EmailTypes
         THEN Return(Invalid("email_type not 1 or 2"))
    ELSE Post("/email/getLatestEmail",
              [email_source |-> params.email_source, email_type |-> params.email_type])

QueryEmailsArgs ==
    { [present |-> TRUE, email_source |-> es, email_type |-> et, recipient_email |-> re,
       sender_email |-> se, subject |-> su, page |-> pg, pageSize |-> ps] :
        es \in {None, Some("huel"), Some("gmail")},
        et \in {None, Some(0), Some(2), Some(3)},
        re \in {None, Some("r@x")}, se \in {None, Some("s@x")}, su \in {None, Some("code")},
        pg \in {None, Some(0), Some(2)},
        ps \in {None, Some(0), Some(MaxPageSize), Some(MaxPageSize + 1)} }
    \cup { [present |-> FALSE] }

\* a destructuring default: it applies to an absent field only
Default(o, d) == IF o = None THEN Some(d) ELSE o

\* the page check off by one: page 0 passes
pageInvalid_OffByOne(page) == page[1] < 0

\* part_000:272
pageInvalid(page) == page[1] < 1

\* part_000:279
pageSizeInvalid(pageSize) == pageSize[1] < 1 \/ pageSize[1] > MaxPageSize

queryEmails(params) ==
    IF ~params.present THEN Return(Thrown(TypeErrorMessage))
    ELSE LET page == Default(params.page, DefaultPage)
             pageSize == Default(params.pageSize, DefaultPageSize)
         IN IF ~TruthyS(params.email_source) THEN Return(Invalid("email_source empty"))
            ELSE IF params.email_source[1] \notin EmailSources
                 THEN Return(Invalid("email_source not supported"))
            ELSE IF ~TruthyN(params.email_type) THEN Return(Invalid("email_type empty"))
            ELSE IF params.email_type[1] \notin EmailTypes
                 THEN Return(Invalid("email_type not 1 or 2"))
            ELSE IF pageInvalid(page) THEN Return(Invalid("page below 1"))
            ELSE IF pageSizeInvalid(pageSize)
                 THEN Return(Invalid("pageSize not in 1-100"))
            ELSE Post("/email/queryEmails",
                      [email_source |-> params.email_source,
                       email_type |-> params.email_type,
                       page |-> page,
                       pageSize |-> pageSize,
                       recipient_email |-> IF TruthyS(params.recipient_email)
                                           THEN params.recipient_email ELSE None,
                       sender_email |-> IF TruthyS(params.sender_email)
                                        THEN params.sender_email ELSE None,
                       subject |-> IF TruthyS(params.subject) THEN params.subject ELSE None])

-----------------------------------------------------------------------------
(* email-account operations *)

\* the optional string fields of addEmailAccount
AccountFields ==
    {"username", "password", "reg_name", "reg_id_card", "reg_backup_email", "reg_phone", "notes"}

AddEmailAccountArgs ==
    { [present |-> TRUE, fields |-> f, is_sold |-> sold] :
        f \in { g \in [AccountFields -> {None, Some("v")}] :
                  Cardinality({k \in AccountFields : g[k] # None}) <= MaxSuppliedFields },
        sold \in {None, Some(FALSE), Some(TRUE)} }
    \cup { [present |-> FALSE] }

\* addEmailAccount building the body with field || '': every field is sent
addEmailAccount_ForwardsAll(accountData) ==
    IF ~accountData.present THEN Return(Thrown(TypeErrorMessage))
    ELSE LET is_sold == Default(accountData.is_sold, FALSE)
         IN IF \A k \in AccountFields : ~TruthyS(accountData.fields[k])
            THEN Return(Invalid("at least one item is required"))
            ELSE Post("/emailAccountAdmin/addEmailAccount",
                      [fields |-> [k \in AccountFields |-> OrS(accountData.fields[k], Some(""))],
                       is_sold |-> is_sold])

addEmailAccount(accountData) ==
    IF ~accountData.present THEN Return(Thrown(TypeErrorMessage))
    ELSE LET is_sold == Default(accountData.is_sold, FALSE)
         IN IF \A k \in AccountFields : ~TruthyS(accountData.fields[k])
            THEN Return(Invalid("at least one item is required"))
            ELSE Post("/emailAccountAdmin/addEmailAccount",
                      [fields |-> accountData.fields, is_sold |-> is_sold])

\* the keys an updateData object can hold
UpdateKeys == {"_id", "create_date", "password"}

\* updateData is modelled by the set of its keys
UpdateEmailAccountArgs ==
    { [present |-> TRUE, _id |-> id, username |-> un, reg_backup_email |-> rb,
       updateData |-> ud] :
        id \in {None, Some("id1")}, un \in {None, Some("u@x")}, rb \in {None, Some("b@x")},
        ud \in {None} \cup { Some(ks) : ks \in SUBSET UpdateKeys } }
    \cup { [present |-> FALSE] }

updateEmailAccount(params) ==
    IF ~params.present THEN Return(Thrown(TypeErrorMessage))
    ELSE IF ~TruthyS(params._id) /\ ~TruthyS(params.username)
            /\ ~TruthyS(params.reg_backup_email)
         THEN Return(Invalid("a lookup key is required"))
    ELSE IF params.updateData = None \/ Cardinality(params.updateData[1]) = 0
         THEN Return(Invalid("updateData empty"))
    ELSE LET filteredData == params.updateData[1] \ {"_id", "create_date"}
         IN Post("/emailAccountAdmin/updateEmailAccount",
                 [updateData |-> filteredData,
                  _id |-> IF TruthyS(params._id) THEN params._id ELSE None,
                  username |-> IF TruthyS(params.username) THEN params.username ELSE None,
                  reg_backup_email |-> IF TruthyS(params.reg_backup_email)
                                       THEN params.reg_backup_email ELSE None])

-----------------------------------------------------------------------------
(* direct use of the exported apiClient and handleApiResponse *)

\* the retry fields a caller can put on the config of a request of its own
RequestConfigs ==
    { [NoConfig EXCEPT !.maxRetries = mr, !.retryDelay = rd] :
        mr \in {None} \cup { Some(n) : n \in 0..MaxRequestedRetries },
        rd \in {None, Some(0), Some(500)} }

-----------------------------------------------------------------------------
(* The state machine *)

\* fails is the history of the failed attempts of a call: how many failed
\* without and with a response, the message of the first failure, and how many
\* of the requests that failed without a response the backend had processed
Init ==
    /\ pc = [c \in Calls |-> "idle"]
    /\ op = [c \in Calls |-> "none"]
    /\ arg = [c \in Calls |-> None]
    /\ config = [c \in Calls |-> NoConfig]
    /\ sent = [c \in Calls |-> 0]
    /\ fails = [c \in Calls |->
                 [noResponse |-> 0, withResponse |-> 0, first |-> None, lost |-> 0]]
    /\ settled = [c \in Calls |-> None]
    /\ timer = [c \in Calls |-> None]
    /\ result = [c \in Calls |-> NoResult]

\* Start with one config object shared by all requests: the retry fields a
\* request interceptor pass left on it are seen by the next call
Start_SharedConfig(c, o, a, r, cfg) ==
    /\ op' = [op EXCEPT ![c] = o]
    /\ arg' = [arg EXCEPT ![c] = a]
    /\ IF r.post = None
       THEN /\ pc' = [pc EXCEPT ![c] = "done"]
            /\ result' = [result EXCEPT ![c] = r.ret[1]]
            /\ UNCHANGED <<config, sent>>
       ELSE /\ pc' = [pc EXCEPT ![c] = "inflight"]
            /\ LET other == CHOOSE d \in Calls : d # c
               IN config' = [config EXCEPT ![c] =
                               requestInterceptor(
                                   [cfg EXCEPT !.url = Some(r.post[1].url),
                                               !.data = Some(r.post[1].data),
                                               !.retryCount = config[other].retryCount,
                                               !.maxRetries = config[other].maxRetries,
                                               !.retryDelay = config[other].retryDelay])]
            /\ sent' = [sent EXCEPT ![c] = @ + 1]
            /\ UNCHANGED result
    /\ UNCHANGED <<fails, settled, timer>>

\* call c runs operation o on input a; r is what the operation function did.
\* apiClient.post(url, data, cfg) runs the request interceptor and sends.
Start(c, o, a, r, cfg) ==
    /\ op' = [op EXCEPT ![c] = o]
    /\ arg' = [arg EXCEPT ![c] = a]
    /\ IF r.post = None
       THEN /\ pc' = [pc EXCEPT ![c] = "done"]
            /\ result' = [result EXCEPT ![c] = r.ret[1]]
            /\ UNCHANGED <<config, sent>>
       ELSE /\ pc' = [pc EXCEPT ![c] = "inflight"]
            /\ config' = [config EXCEPT ![c] =
                            requestInterceptor([cfg EXCEPT !.url = Some(r.post[1].url),
                                                           !.data = Some(r.post[1].data)])]
            /\ sent' = [sent EXCEPT ![c] = @ + 1]
            /\ UNCHANGED result
    /\ UNCHANGED <<fails, settled, timer>>

AddEmail(c) ==
    /\ pc[c] = "idle"
    /\ \E a \in AddEmailArgs : Start(c, "addEmail", a, addEmail(a), NoConfig)

GetLatestEmail(c) ==
    /\ pc[c] = "idle"
    /\ \E a \in GetLatestEmailArgs :
         Start(c, "getLatestEmail", a, getLatestEmail(a), NoConfig)

QueryEmails(c) ==
    /\ pc[c] = "idle"
    /\ \E a \in QueryEmailsArgs : Start(c, "queryEmails", a, queryEmails(a), NoConfig)

AddEmailAccount(c) ==
    /\ pc[c] = "idle"
    /\ \E a \in AddEmailAccountArgs :
         Start(c, "addEmailAccount", a, addEmailAccount(a), NoConfig)

UpdateEmailAccount(c) ==
    /\ pc[c] = "idle"
    /\ \E a \in UpdateEmailAccountArgs :
         Start(c, "updateEmailAccount", a, updateEmailAccount(a), NoConfig)

\* handleApiResponse(apiClient.post(url, data, cfg)) by a caller of its own
Request(c) ==
    /\ pc[c] = "idle"
    /\ \E cfg \in RequestConfigs : Start(c, "request", cfg, Post("/any", None), cfg)

\* handleApiResponse(p) by a caller of its own, on a promise p that has settled
Handle(c) ==
    /\ pc[c] = "idle"
    /\ \E p \in Promises :
         /\ settled' = [settled EXCEPT ![c] = Some(p)]
         /\ result' = [result EXCEPT ![c] = handleApiResponse(p)]
    /\ op' = [op EXCEPT ![c] = "handleApiResponse"]
    /\ pc' = [pc EXCEPT ![c] = "done"]
    /\ UNCHANGED <<arg, config, sent, fails, timer>>

\* the attempt in flight is answered: the response interceptor passes the
\* response on and handleApiResponse makes the envelope
Respond(c) ==
    /\ pc[c] = "inflight"
    /\ \E response \in Responses :
         /\ settled' = [settled EXCEPT ![c] = Some(response)]
         /\ result' = [result EXCEPT ![c] = handleApiResponse(response)]
         /\ pc' = [pc EXCEPT ![c] = "done"]
    /\ UNCHANGED <<op, arg, config, sent, fails, timer>>

\* Fail with the retry counter kept in one place for all requests: a retry of
\* one call counts against every request that is under way
Fail_SharedCounter(c) ==
    /\ pc[c] = "inflight"
    /\ \E error \in Failures, processed \in BOOLEAN :
         /\ error.hasResponse => processed
         /\ settled' = [settled EXCEPT ![c] = Some(error)]
         /\ fails' = [fails EXCEPT ![c] =
                        [noResponse |-> @.noResponse + (IF error.hasResponse THEN 0 ELSE 1),
                         withResponse |-> @.withResponse + (IF error.hasResponse THEN 1 ELSE 0),
                         first |-> IF sent[c] = 1 THEN Some(error.message) ELSE @.first,
                         lost |-> @.lost + (IF processed /\ ~error.hasResponse THEN 1 ELSE 0)]]
         /\ IF shouldRetry(config[c], error)
            THEN /\ config' = [d \in Calls |->
                                 IF config[d].retryCount # None /\ pc[d] # "done"
                                 THEN [config[d] EXCEPT !.retryCount = Some(@[1] + 1)]
                                 ELSE config[d]]
                 /\ timer' = [timer EXCEPT ![c] = config[c].retryDelay]
                 /\ pc' = [pc EXCEPT ![c] = "delaying"]
                 /\ UNCHANGED result
            ELSE /\ result' = [result EXCEPT ![c] = handleApiResponse(error)]
                 /\ pc' = [pc EXCEPT ![c] = "done"]
                 /\ UNCHANGED <<config, timer>>
    /\ UNCHANGED <<op, arg, sent>>

\* the attempt in flight fails: the response error interceptor retries after
\* config.retryDelay, or rejects and handleApiResponse makes the envelope
Fail(c) ==
    /\ pc[c] = "inflight"
    /\ \E error \in Failures, processed \in BOOLEAN :
         \* an attempt that fails with a response was processed by the backend; one
         \* that fails without a response was processed (and the response lost) or not
         /\ error.hasResponse => processed
         /\ settled' = [settled EXCEPT ![c] = Some(error)]
         /\ fails' = [fails EXCEPT ![c] =
                        [noResponse |-> @.noResponse + (IF error.hasResponse THEN 0 ELSE 1),
                         withResponse |-> @.withResponse + (IF error.hasResponse THEN 1 ELSE 0),
                         first |-> IF sent[c] = 1 THEN Some(error.message) ELSE @.first,
                         lost |-> @.lost + (IF processed /\ ~error.hasResponse THEN 1 ELSE 0)]]
         /\ IF shouldRetry(config[c], error)
            THEN /\ config' = [config EXCEPT ![c].retryCount = Some(@[1] + 1)]
                 /\ timer' = [timer EXCEPT ![c] = config[c].retryDelay]
                 /\ pc' = [pc EXCEPT ![c] = "delaying"]
                 /\ UNCHANGED result
            ELSE /\ result' = [result EXCEPT ![c] = handleApiResponse(error)]
                 /\ pc' = [pc EXCEPT ![c] = "done"]
                 /\ UNCHANGED <<config, timer>>
    /\ UNCHANGED <<op, arg, sent>>

\* the retry delay elapses: apiClient(config) reissues the request.  axios
\* merges the fields of config, retryCount included, into the config of the new
\* request, and the request interceptor runs on it again
Reissue(c) ==
    /\ pc[c] = "delaying"
    /\ config' = [config EXCEPT ![c] = requestInterceptor(@)]
    /\ sent' = [sent EXCEPT ![c] = @ + 1]
    /\ settled' = [settled EXCEPT ![c] = None]
    /\ timer' = [timer EXCEPT ![c] = None]
    /\ pc' = [pc EXCEPT ![c] = "inflight"]
    /\ UNCHANGED <<op, arg, fails, result>>

\* one call in isolation
Next ==
    \E c \in {1} :
        \/ AddEmail(c)
        \/ GetLatestEmail(c)
        \/ QueryEmails(c)
        \/ AddEmailAccount(c)
        \/ UpdateEmailAccount(c)
        \/ Request(c)
        \/ Handle(c)
        \/ Respond(c)
        \/ Fail(c)
        \/ Reissue(c)

Spec == Init /\ [][Next]_vars

\* two calls of getLatestEmail in any interleaving: at the same time, or one
\* after the other
NextConc ==
    \E c \in Calls :
        \/ GetLatestEmail(c)
        \/ Respond(c)
        \/ Fail(c)
        \/ Reissue(c)

SpecConc == Init /\ [][NextConc]_vars

\* one call whose attempts each complete (the server answers, the connection
\* fails, or the timeout of axios.create fires) and whose delays each elapse
\* (the timer of setTimeout fires)
SpecLive ==
    /\ Init /\ [][Next]_vars
    /\ WF_vars(Respond(1) \/ Fail(1))
    /\ WF_vars(Reissue(1))

-----------------------------------------------------------------------------
(* Properties *)

Min(a, b) == IF a < b THEN a ELSE b

\* what the last attempt of call c, or the promise handed to handleApiResponse,
\* settled to
Last(c) == settled[c][1]

\* the number of attempts of call c that failed
Failed(c) == fails[c].noResponse + fails[c].withResponse

\* the last attempt was answered with errCode 0
Succeeded(c) ==
    /\ settled[c] # None
    /\ Last(c).kind = "resolved" /\ ~Last(c).nullish /\ Last(c).hasBody
    /\ Last(c).errCode = Some(0)

\* the last attempt was answered with an errCode that is not 0
DomainError(c) ==
    /\ settled[c] # None
    /\ Last(c).kind = "resolved" /\ ~Last(c).nullish /\ Last(c).hasBody
    /\ Last(c).errCode # None /\ Last(c).errCode # Some(0)

\* the last attempt failed without a response
NoResponseFailure(c) ==
    settled[c] # None /\ Last(c).kind = "rejected" /\ ~Last(c).nullish /\ ~Last(c).hasResponse

\* the last attempt failed with a response (an HTTP error status)
ResponseFailure(c) ==
    settled[c] # None /\ Last(c).kind = "rejected" /\ ~Last(c).nullish /\ Last(c).hasResponse

FailedEnvelope(c) == result[c].kind = "envelope" /\ ~result[c].success

\* C1: a call whose failures are all no-response failures has retried exactly
\* min(maxRetries, failures) times, one retry per failure (maxRetries being the
\* budget on the request's config); it ends with the success envelope when an
\* attempt is answered with errCode 0, and with a failed envelope once
\* maxRetries + 1 attempts have failed.
C1_NoResponseRetries ==
    \A c \in Calls :
        (sent[c] > 0 /\ fails[c].withResponse = 0) =>
            LET maxRetries == config[c].maxRetries[1]
                retries == config[c].retryCount[1]
            IN /\ retries = Min(maxRetries, fails[c].noResponse)
               /\ sent[c] = IF pc[c] = "delaying" THEN retries ELSE retries + 1
               /\ Succeeded(c) =>
                    pc[c] = "done" /\ result[c] = Envelope(TRUE, Last(c).data, None)
               /\ (pc[c] = "done" /\ NoResponseFailure(c)) =>
                    fails[c].noResponse = maxRetries + 1 /\ FailedEnvelope(c)
               /\ (NoResponseFailure(c) /\ fails[c].noResponse <= maxRetries) =>
                    pc[c] = "delaying"

\* an operation call that succeeded on its first retry: min(2, 1) = 1 retry
C1_Witness ==
    \E c \in Calls :
        /\ op[c] = "getLatestEmail" /\ pc[c] = "done"
        /\ fails[c].noResponse = 1 /\ fails[c].withResponse = 0
        /\ fails[c].first = Some(Some("timeout"))
        /\ config[c].maxRetries = Some(2) /\ config[c].retryCount = Some(1) /\ sent[c] = 2
        /\ Succeeded(c) /\ result[c] = Envelope(TRUE, Some("d1"), None)

\* C2: when every attempt of a call fails without a response, maxRetries + 1
\* attempts are made and the failed envelope carries the message of the last
\* failure.
C2_ExhaustionSurfacesLastError ==
    \A c \in Calls :
        (pc[c] = "done" /\ sent[c] > 0 /\ NoResponseFailure(c) /\ fails[c].withResponse = 0) =>
            /\ sent[c] = config[c].maxRetries[1] + 1
            /\ fails[c].noResponse = sent[c]
            /\ FailedEnvelope(c)
            /\ TruthyS(Last(c).message) => result[c].error = Last(c).message

\* three failed attempts under the default budget of 2; the first failure's
\* message is "timeout", the last one's "reset", and the envelope carries "reset"
C2_Witness ==
    \E c \in Calls :
        /\ op[c] = "queryEmails" /\ pc[c] = "done" /\ NoResponseFailure(c)
        /\ config[c].maxRetries = Some(2) /\ sent[c] = 3
        /\ fails[c].noResponse = 3 /\ fails[c].withResponse = 0
        /\ fails[c].first = Some(Some("timeout"))
        /\ Last(c).message = Some("reset")
        /\ result[c] = Envelope(FALSE, None, Some("reset"))

\* C3: a failure that carries a response is never retried, whatever its code:
\* the call ends at once with a failed envelope.
C3_ResponseFailureNeverRetried ==
    \A c \in Calls :
        (sent[c] > 0 /\ ResponseFailure(c)) => (pc[c] = "done" /\ FailedEnvelope(c))

C5_SuccessEnvelope ==
    \A c \in Calls :
        Succeeded(c) => (pc[c] = "done" /\ result[c] = Envelope(TRUE, Last(c).data, None))

\* success on the second retry, after two no-response failures
C5_Witness ==
    \E c \in Calls :
        /\ op[c] = "addEmailAccount" /\ pc[c] = "done" /\ Succeeded(c)
        /\ fails[c].noResponse = 2 /\ sent[c] = 3
        /\ Last(c).data = Some("d1") /\ Last(c).errMsg = Some("m1")
        /\ result[c] = Envelope(TRUE, Some("d1"), None)

\* C6: the request interceptor keeps a maxRetries or retryDelay the request
\* already carries, 0 included, and applies the defaults 2 and 1000 only to an
\* absent field; a request with maxRetries = 0 is attempted once.
C6_CountersAttachedOnlyIfAbsent ==
    \A c \in Calls :
        (op[c] = "request" /\ sent[c] > 0) =>
            /\ config[c].maxRetries = Default(arg[c].maxRetries, DefaultMaxRetries)
            /\ config[c].retryDelay = Default(arg[c].retryDelay, DefaultRetryDelay)
            /\ arg[c].maxRetries = Some(0) => sent[c] = 1

\* C7: handleApiResponse resolves to a result envelope for every promise it is
\* handed; it never rejects.
C7_HandleNeverRaises ==
    \A c \in Calls :
        (op[c] = "handleApiResponse" /\ pc[c] = "done") => result[c].kind = "envelope"

Operations ==
    {"addEmail", "getLatestEmail", "queryEmails", "addEmailAccount", "updateEmailAccount"}

\* C8: every operation function resolves to a result envelope for every input,
\* an absent parameter object included; it never throws or rejects.
C8_OperationsNeverThrow ==
    \A c \in Calls :
        (op[c] \in Operations /\ pc[c] = "done") => result[c].kind = "envelope"

\* C9: every envelope returned has, when success is true, no error and the
\* data field of the backend's response as data, and, when success is false,
\* an error string and no data.
C9_EnvelopeInvariant ==
    \A c \in Calls :
        result[c].kind = "envelope" =>
            /\ result[c].success =>
                 /\ result[c].error = None
                 /\ Succeeded(c) /\ result[c].data = Last(c).data
            /\ ~result[c].success =>
                 /\ TruthyS(result[c].error)
                 /\ result[c].data = None

\* a domain error without errMsg: the envelope carries the generic string
C9_Witness ==
    \E c \in Calls :
        /\ op[c] = "updateEmailAccount" /\ pc[c] = "done" /\ DomainError(c)
        /\ Last(c).errMsg = None /\ Last(c).data = Some("d1")
        /\ result[c] = Envelope(FALSE, None, Some(UnknownError))

ValidSource(a) == a.email_source # None /\ a.email_source[1] \in EmailSources

ValidType(a) == a.email_type # None /\ a.email_type[1] \in EmailTypes

\* the call returned the validation envelope with message m and sent nothing
Rejects(c, m) ==
    /\ pc[c] = "done" /\ result[c] = Envelope(FALSE, None, Some(m))
    /\ sent[c] = 0 /\ config[c] = NoConfig

\* C10: addEmail, getLatestEmail and queryEmails return the validation message
\* of the first failing check, and send no request, for an input with a missing
\* or unsupported email_source, a missing email_type or one outside {1, 2}, a
\* page below 1 or a pageSize outside 1..100.
C10_ValidationBeforeNetwork ==
    \A c \in Calls :
        (op[c] \in {"addEmail", "getLatestEmail", "queryEmails"} /\ arg[c].present) =>
            LET a == arg[c]
            IN /\ a.email_source = None => Rejects(c, "email_source empty")
               /\ (a.email_source # None /\ ~ValidSource(a)) =>
                    Rejects(c, "email_source not supported")
               /\ (ValidSource(a) /\ a.email_type = None) => Rejects(c, "email_type empty")
               /\ (ValidSource(a) /\ a.email_type = Some(0)) => Rejects(c, "email_type empty")
               /\ (ValidSource(a) /\ a.email_type = Some(3)) =>
                    Rejects(c, "email_type not 1 or 2")
               /\ (op[c] = "queryEmails" /\ ValidSource(a) /\ ValidType(a)) =>
                    /\ (a.page # None /\ a.page[1] < 1) => Rejects(c, "page below 1")
                    /\ ( /\ a.page = None \/ a.page[1] >= 1
                         /\ a.pageSize # None
                         /\ a.pageSize[1] < 1 \/ a.pageSize[1] > MaxPageSize ) =>
                            Rejects(c, "pageSize not in 1-100")

\* queryEmails with page 0 and every other field valid
C10_Witness ==
    \E c \in Calls :
        /\ op[c] = "queryEmails" /\ arg[c].present
        /\ arg[c].email_source = Some("huel") /\ arg[c].email_type = Some(2)
        /\ arg[c].page = Some(0) /\ arg[c].pageSize = Some(MaxPageSize)
        /\ Rejects(c, "page below 1")

\* the request body call c sent
Body(c) == config[c].data[1]

\* C11: an optional field that is absent from the caller's input is absent
\* from the request body, for addEmail, queryEmails, addEmailAccount and
\* updateEmailAccount.
C11_OnlySuppliedOptionalsForwarded ==
    \A c \in Calls :
        sent[c] > 0 =>
            /\ op[c] = "addEmail" =>
                 \A f \in {"sender_name", "content", "email_id", "mail_time"} :
                     arg[c][f] = None => Body(c)[f] = None
            /\ op[c] = "queryEmails" =>
                 \A f \in {"recipient_email", "sender_email", "subject", "page", "pageSize"} :
                     arg[c][f] = None => Body(c)[f] = None
            /\ op[c] = "addEmailAccount" =>
                 /\ \A k \in AccountFields : arg[c].fields[k] = None => Body(c).fields[k] = None
                 /\ arg[c].is_sold = None => Body(c).is_sold = None
            /\ op[c] = "updateEmailAccount" =>
                 \A f \in {"_id", "username", "reg_backup_email"} :
                     arg[c][f] = None => Body(c)[f] = None

\* C11 as amended: an absent optional field is absent from the request body,
\* except the fields that have a default (page and pageSize of queryEmails,
\* is_sold of addEmailAccount), which are sent with the default 1, 20, false.
C11_AbsentOptionalsNotForwarded ==
    \A c \in Calls :
        sent[c] > 0 =>
            /\ op[c] = "addEmail" =>
                 \A f \in {"sender_name", "content", "email_id", "mail_time"} :
                     arg[c][f] = None => Body(c)[f] = None
            /\ op[c] = "queryEmails" =>
                 /\ \A f \in {"recipient_email", "sender_email", "subject"} :
                        arg[c][f] = None => Body(c)[f] = None
                 /\ arg[c].page = None => Body(c).page = Some(DefaultPage)
                 /\ arg[c].pageSize = None => Body(c).pageSize = Some(DefaultPageSize)
            /\ op[c] = "addEmailAccount" =>
                 /\ \A k \in AccountFields : arg[c].fields[k] = None => Body(c).fields[k] = None
                 /\ arg[c].is_sold = None => Body(c).is_sold = Some(FALSE)
            /\ op[c] = "updateEmailAccount" =>
                 \A f \in {"_id", "username", "reg_backup_email"} :
                     arg[c][f] = None => Body(c)[f] = None

\* addEmailAccount with reg_name only: the body has reg_name, no other string
\* field, and is_sold false
C11_Witness ==
    \E c \in Calls :
        /\ op[c] = "addEmailAccount" /\ sent[c] = 1
        /\ arg[c].is_sold = None
        /\ \A k \in AccountFields : arg[c].fields[k] # None <=> k = "reg_name"
        /\ \A k \in AccountFields : Body(c).fields[k] # None <=> k = "reg_name"
        /\ Body(c).is_sold = Some(FALSE)

\* everything the program holds for call c
CallState(c) ==
    <<pc[c], op[c], arg[c], config[c], sent[c], fails[c], settled[c], timer[c], result[c]>>

\* the retry counter of call c counts the retried failures of call c alone
OwnRetryCounter(c) ==
    sent[c] > 0 =>
        /\ config[c].retryCount[1] =
             IF pc[c] = "done" /\ Last(c).kind = "rejected" THEN Failed(c) - 1 ELSE Failed(c)
        /\ sent[c] = config[c].retryCount[1] + (IF pc[c] = "delaying" THEN 0 ELSE 1)

\* while call c waits out its retry delay call d can be dispatched and answered
NotBlockedBy(c, d) ==
    /\ (pc[c] = "delaying" /\ pc[d] = "idle") => ENABLED GetLatestEmail(d)
    /\ (pc[c] = "delaying" /\ pc[d] = "inflight") => ENABLED Respond(d)

\* C12: with two calls under way in any interleaving each call has a retry
\* counter of its own, a step of one call changes nothing of the other call,
\* and a call that waits out its retry delay does not block the other.
C12_CallsIndependent ==
    /\ [](\A c \in Calls : OwnRetryCounter(c))
    /\ [](\A c, d \in Calls : c # d => NotBlockedBy(c, d))
    /\ [][\A c, d \in Calls :
            (c # d /\ CallState(c)' # CallState(c)) => CallState(d)' = CallState(d)]_vars

\* call 1 is waiting out the delay of its first retry; call 2 was answered on
\* its first attempt and is complete
C12_Witness ==
    /\ pc[1] = "delaying" /\ config[1].retryCount = Some(1) /\ sent[1] = 1
    /\ pc[2] = "done" /\ Succeeded(2) /\ sent[2] = 1 /\ config[2].retryCount = Some(0)
    /\ result[2] = Envelope(TRUE, Some("d1"), None)

\* the failure is of a kind the response error interceptor retries
Retryable(error) ==
    \/ (error.code # None /\ error.code[1] \in RetryCodes)
    \/ ~error.hasResponse

\* the three ways a dispatched call ends
EndsInSuccess(c) == Succeeded(c)

EndsInExhaustion(c) ==
    /\ settled[c] # None /\ Last(c).kind = "rejected"
    /\ Retryable(Last(c))
    /\ config[c].retryCount = config[c].maxRetries

EndsInNonRetryableFailure(c) ==
    /\ settled[c] # None
    /\ \/ Last(c).kind = "resolved" /\ ~Succeeded(c)
       \/ Last(c).kind = "rejected" /\ ~Retryable(Last(c))

ExactlyOne(a, b, d) == (a /\ ~b /\ ~d) \/ (~a /\ b /\ ~d) \/ (~a /\ ~b /\ d)

\* C13: when every attempt eventually completes and every delay eventually
\* elapses, a dispatched call eventually ends, with a result and in exactly one
\* of three ways: success, a non-retryable failure, or retry exhaustion; it
\* never makes more than maxRetries + 1 attempts.
C13_CallTerminates ==
    /\ [](sent[1] > 0 => sent[1] <= config[1].maxRetries[1] + 1)
    /\ (pc[1] \in {"inflight", "delaying"}) ~>
          (/\ pc[1] = "done" /\ result[1].kind = "envelope"
           /\ ExactlyOne(EndsInSuccess(1), EndsInNonRetryableFailure(1), EndsInExhaustion(1)))

C13_Witness ==
    /\ pc[1] = "done" /\ op[1] = "getLatestEmail"
    /\ EndsInExhaustion(1) /\ sent[1] = DefaultMaxRetries + 1
    /\ config[1].retryCount = Some(DefaultMaxRetries)
    /\ FailedEnvelope(1)

\* the backend behaved the same way towards calls c and d: as many attempts
\* failed, in the same way, and the last attempt was answered the same
SameBackendBehaviour(c, d) == fails[c] = fails[d] /\ settled[c] = settled[d]

\* the first attempt of a call carries the counters of a fresh request
FreshFirstAttempt(c) ==
    (pc[c] = "inflight" /\ sent[c] = 1) =>
        /\ config[c].retryCount = Some(0)
        /\ config[c].maxRetries = Some(DefaultMaxRetries)
        /\ config[c].retryDelay = Some(DefaultRetryDelay)

\* C14: two calls of getLatestEmail with the same input, towards which the
\* backend behaves the same way, end with the same envelope after the same
\* attempts; whatever the state of the other call, a call starts with retry
\* counters of its own (retryCount 0 and the default budget and delay).
C14_ReadOnlyQueryIdempotent ==
    /\ \A c \in Calls : FreshFirstAttempt(c)
    /\ \A c, d \in Calls :
          (/\ pc[c] = "done" /\ pc[d] = "done"
           /\ op[c] = "getLatestEmail" /\ op[d] = "getLatestEmail"
           /\ arg[c] = arg[d]
           /\ SameBackendBehaviour(c, d))
          => /\ result[c] = result[d]
             /\ sent[c] = sent[d]
             /\ config[c] = config[d]

C14_Witness ==
    /\ pc[1] = "done" /\ pc[2] = "done"
    /\ arg[1] = arg[2] /\ sent[1] = 2 /\ sent[2] = 2
    /\ SameBackendBehaviour(1, 2)
    /\ fails[1].noResponse = 1
    /\ Succeeded(1)
    /\ result[1] = Envelope(TRUE, Some("d1"), None) /\ result[2] = result[1]

\* the part of the request descriptor of call c that a retry must not touch
Descriptor(c) ==
    [url |-> config[c].url, data |-> config[c].data,
     maxRetries |-> config[c].maxRetries, retryDelay |-> config[c].retryDelay]

\* the step is the retry branch of a failed attempt of call c
RetryStep(c) == pc[c] = "inflight" /\ pc'[c] = "delaying"

\* the step is the reissue of the request of call c
ReissueStep(c) == pc[c] = "delaying" /\ pc'[c] # "delaying"

\* C15: once a request is dispatched its url, body, maxRetries and retryDelay
\* never change; a retry adds exactly 1 to retryCount and starts one wait of
\* retryDelay; after the wait the request is reissued, as one more attempt, with
\* the config unchanged; no other step changes retryCount, and an attempt
\* follows a failure only through that one wait.
C15_RetryKeepsDescriptor ==
    [][\A c \in {1} :
         /\ pc[c] \in {"inflight", "delaying"} => Descriptor(c)' = Descriptor(c)
         /\ RetryStep(c) =>
               /\ config'[c].retryCount = Some(config[c].retryCount[1] + 1)
               /\ timer[c] = None /\ timer'[c] = config[c].retryDelay
               /\ sent'[c] = sent[c]
         /\ ReissueStep(c) =>
               /\ pc'[c] = "inflight"
               /\ timer[c] = config[c].retryDelay /\ timer'[c] = None
               /\ config'[c] = config[c]
               /\ sent'[c] = sent[c] + 1
         /\ (pc[c] \in {"inflight", "delaying"} /\ ~RetryStep(c)) =>
               config'[c].retryCount = config[c].retryCount
         /\ (pc[c] = "inflight" /\ pc'[c] # "inflight") => pc'[c] \in {"delaying", "done"}
      ]_vars

C15_Witness ==
    /\ pc[1] = "inflight" /\ op[1] = "request"
    /\ sent[1] = 4 /\ config[1].retryCount = Some(3)
    /\ config[1].maxRetries = Some(3) /\ config[1].retryDelay = Some(500)
    /\ config[1].url = Some("/any")
    /\ fails[1].noResponse = 3

\* the promise handled for call c was rejected (with an error, or with undefined)
RejectedPromise(c) == settled[c] # None /\ Last(c).kind = "rejected"

\* the error string the precedence picks for a rejection: the errMsg of the
\* response body, else the message of the error, else the generic string
ErrorByPrecedence(error) ==
    IF error.hasResponse /\ TruthyS(error.errMsg) THEN error.errMsg
    ELSE IF TruthyS(error.message) THEN error.message
    ELSE Some(UnknownError)

\* C16: when the handled promise rejects, the call returns a failed envelope
\* whose error is the errMsg of the error's response body if there is one,
\* otherwise the error's message, otherwise the generic unknown-error string;
\* when it resolves with a nonzero errCode and no errMsg, the error is the
\* generic string.
C16_ErrorPrecedence ==
    \A c \in {1} :
        pc[c] = "done" =>
            /\ RejectedPromise(c) =>
                  /\ FailedEnvelope(c)
                  /\ result[c].error = ErrorByPrecedence(Last(c))
            /\ (DomainError(c) /\ ~TruthyS(Last(c).errMsg)) =>
                  /\ FailedEnvelope(c)
                  /\ result[c].error = Some(UnknownError)

\* how many times the backend has applied the request of call c: the attempts
\* it processed whose response was lost, and the attempt it answered with errCode 0
Applied(c) == fails[c].lost + (IF Succeeded(c) THEN 1 ELSE 0)

\* C17: whatever the operation, a failure without a response is surfaced only
\* when the retry budget is used up: while budget is left the request is sent
\* again, also when the backend had processed it and only the response was
\* lost; so the backend applies the request of one call as many times as it is
\* sent, at most maxRetries + 1 times.
C17_LostResponseResent ==
    \A c \in {1} :
        /\ (pc[c] = "done" /\ NoResponseFailure(c) /\ op[c] # "handleApiResponse") =>
              config[c].retryCount = config[c].maxRetries
        /\ sent[c] > 0 =>
              /\ Applied(c) <= sent[c]
              /\ sent[c] <= config[c].maxRetries[1] + 1

C17_Witness ==
    /\ op[1] = "addEmailAccount" /\ pc[1] = "done"
    /\ sent[1] = DefaultMaxRetries + 1
    /\ fails[1].lost = DefaultMaxRetries /\ fails[1].withResponse = 0
    /\ Succeeded(1)
    /\ Applied(1) = DefaultMaxRetries + 1

\* the caller of addEmailAccount supplied none of the eight fields
NoFieldSupplied(a) == a.is_sold = None /\ \A k \in AccountFields : a.fields[k] = None

\* C18: addEmailAccount returns the at-least-one-item validation error, and
\* sends nothing, exactly when the caller supplied none of username, password,
\* reg_name, reg_id_card, reg_backup_email, reg_phone, notes and is_sold; with
\* at least one of them supplied the request is issued.
C18_RejectsOnlyEmptyAccount ==
    \A c \in {1} :
        (op[c] = "addEmailAccount" /\ arg[c].present) =>
            /\ NoFieldSupplied(arg[c]) <=> Rejects(c, "at least one item is required")
            /\ ~NoFieldSupplied(arg[c]) => sent[c] > 0

\* C19: every request updateEmailAccount issues carries at least one lookup key
\* and an updateData that is non-empty and holds neither _id nor create_date;
\* an input whose update data is absent or empty is rejected, once a lookup key
\* is given, with the update-data-empty message and without a request.
C19_UpdateRequestWellFormed ==
    \A c \in {1} :
        (op[c] = "updateEmailAccount" /\ arg[c].present) =>
            /\ sent[c] > 0 =>
                  /\ \/ Body(c)._id # None
                     \/ Body(c).username # None
                     \/ Body(c).reg_backup_email # None
                  /\ Body(c).updateData # {}
                  /\ Body(c).updateData \cap {"_id", "create_date"} = {}
            /\ (/\ \/ arg[c]._id # None
                    \/ arg[c].username # None
                    \/ arg[c].reg_backup_email # None
                 /\ arg[c].updateData \in {None, Some({})}) =>
                  Rejects(c, "updateData empty")

\* call c has been dispatched: its request went through the request interceptor
Dispatched(c) == sent[c] > 0

\* C20: for every dispatched call (none is given a retryCount by its caller)
\* 0 <= retryCount <= maxRetries in every state; retryCount never decreases,
\* and the request interceptor running on the reissued request leaves the
\* retryCount of the retries made so far in place.
C20_RetryCountBounded ==
    /\ [](\A c \in {1} :
            Dispatched(c) =>
                /\ 0 <= config[c].retryCount[1]
                /\ config[c].retryCount[1] <= config[c].maxRetries[1])
    /\ [][\A c \in {1} :
            /\ Dispatched(c) => config'[c].retryCount[1] >= config[c].retryCount[1]
            /\ ReissueStep(c) =>
                  /\ config'[c].retryCount = config[c].retryCount
                  /\ config'[c].retryCount[1] = fails[c].noResponse + fails[c].withResponse
                  /\ config'[c].retryCount[1] > 0]_vars

C20_Witness ==
    /\ op[1] = "queryEmails" /\ pc[1] = "inflight"
    /\ sent[1] = DefaultMaxRetries + 1
    /\ config[1].retryCount = Some(DefaultMaxRetries)
    /\ config[1].maxRetries = Some(DefaultMaxRetries)

====
